---- MODULE Spec2Model ----
(***************************************************************************)
(* Model of glance.py: the always-on loop that polls the Selenium session  *)
(* for its current URL, extracts and summarizes the text of every new     *)
(* page, and quits the driver when the process is interrupted.            *)
(*                                                                         *)
(* pc names the call the single thread is blocked in.  An event is        *)
(* appended to the record of the running tick when the code invokes the   *)
(* call or print it names; an action models the return (or the raise) of  *)
(* the call in flight together with the code that runs up to the next     *)
(* call.                                                                   *)
(***************************************************************************)
EXTENDS Integers, Sequences, FiniteSets, TLC

VARIABLES
    pc,              \* the call in flight / position of the thread
    processed_urls,  \* main(): processed_urls
    current_url,     \* main(): current_url (local)
    extracted_text,  \* main(): extracted_text (local)
    summary,         \* main(): summary (local)
    driver_url,      \* the session's own current address (driver.current_url)
    driver_open,     \* the session handle has not been released
    quit_calls,      \* number of driver.quit() calls
    exit_printed,    \* "Exiting..." was printed
    interrupted_at,  \* the call in which KeyboardInterrupt was raised, or "none"
    history          \* one record per tick: the address read and the events

vars == <<pc, processed_urls, current_url, extracted_text, summary,
          driver_url, driver_open, quit_calls, exit_printed, interrupted_at,
          history>>

\* ---------------------------------------------------------------- bounds
MaxTicks == 4
MaxFaults == 2

\* ------------------------------------------------------------- addresses
P1 == "https://x.test/p1"
P2 == "https://x.test/p2"
Addresses == {"", "about:blank", P1, P2}

Unbound == "<unbound>"
Unavailable == "<unavailable>"
NoText == [tick |-> 0]

\* str.startswith
StartsWith(s, prefix) ==
    /\ Len(s) >= Len(prefix)
    /\ SubSeq(s, 1, Len(prefix)) = prefix

\* IsInvalid, had the about: test been left out
IsInvalidNoScheme(url) == url = ""

\* line 131: not current_url or current_url.startswith("about:")
IsInvalid(url) == url = "" \/ StartsWith(url, "about:")

ValidAddresses == {a \in Addresses : ~IsInvalid(a)}

\* IsNew, had the membership test been left out
AlwaysNew(url, done) == TRUE

\* line 136: current_url not in processed_urls
IsNew(url, done) == url \notin done

\* line 92: body.text, an opaque value named by the tick whose extraction
\* returned it
PageText(t) == [tick |-> t]

\* response.choices[0].message.content for the given text
SummaryOf(text) == [of |-> text]

\* ----------------------------------------------------- the tick records
tick == Len(history)

Log(evs) ==
    [history EXCEPT ![Len(history)].events = @ \o evs]

Observe(url, evs) ==
    [history EXCEPT ![Len(history)].url = url,
                    ![Len(history)].events = @ \o evs]

NewTick == [url |-> Unbound, events |-> <<"current_url">>]

ErrorEvents == {"print_error_url", "print_error_extract", "print_error_summarize"}

RECURSIVE CountIn(_, _)
CountIn(evs, S) ==
    IF evs = <<>> THEN 0
    ELSE (IF Head(evs) \in S THEN 1 ELSE 0) + CountIn(Tail(evs), S)

RECURSIVE FaultsIn(_)
FaultsIn(h) ==
    IF h = <<>> THEN 0
    ELSE CountIn(Head(h).events, ErrorEvents) + FaultsIn(Tail(h))

CanFail == FaultsIn(history) < MaxFaults

LoopPcs == {"current_url", "get", "load", "find", "summarize", "print_summary", "sleep"}

\* ------------------------------------------------------------------ Init
Init ==
    /\ pc = "current_url"
    /\ processed_urls = {}
    /\ current_url = Unbound
    /\ extracted_text = NoText
    /\ summary = SummaryOf(NoText)
    /\ driver_url \in Addresses
    /\ driver_open = TRUE
    /\ quit_calls = 0
    /\ exit_printed = FALSE
    /\ interrupted_at = "none"
    /\ history = <<NewTick>>

\* --------------------------------------------------------------- actions
\* The user drives the browser window (or the page changes its own address).
Navigate ==
    /\ driver_open
    /\ \E a \in Addresses : a # driver_url /\ driver_url' = a
    /\ UNCHANGED <<pc, processed_urls, current_url, extracted_text, summary,
                   driver_open, quit_calls, exit_printed, history,
                   interrupted_at>>

\* ReadInvalid, had the loop continued without the wait
ReadInvalidNoWait ==
    /\ pc = "current_url"
    /\ IsInvalid(driver_url)
    /\ tick < MaxTicks
    /\ current_url' = driver_url
    /\ history' = Append(Observe(driver_url, <<>>), NewTick)
    /\ pc' = "current_url"
    /\ UNCHANGED <<processed_urls, extracted_text, summary,
                   driver_url, driver_open, quit_calls, exit_printed,
                   interrupted_at>>

\* lines 123, 131-133: the read returns an empty or about: address
ReadInvalid ==
    /\ pc = "current_url"
    /\ IsInvalid(driver_url)
    /\ current_url' = driver_url
    /\ history' = Observe(driver_url, <<"sleep">>)
    /\ pc' = "sleep"
    /\ UNCHANGED <<processed_urls, extracted_text, summary,
                   driver_url, driver_open, quit_calls, exit_printed,
                   interrupted_at>>

\* lines 123, 131, 136, 160: the read returns an address already processed
ReadProcessed ==
    /\ pc = "current_url"
    /\ ~IsInvalid(driver_url)
    /\ ~IsNew(driver_url, processed_urls)
    /\ current_url' = driver_url
    /\ history' = Observe(driver_url, <<"sleep">>)
    /\ pc' = "sleep"
    /\ UNCHANGED <<processed_urls, extracted_text, summary,
                   driver_url, driver_open, quit_calls, exit_printed,
                   interrupted_at>>

\* ReadNew, had the address been marked when it is announced
ReadNewMarks ==
    /\ pc = "current_url"
    /\ ~IsInvalid(driver_url)
    /\ IsNew(driver_url, processed_urls)
    /\ current_url' = driver_url
    /\ processed_urls' = processed_urls \cup {driver_url}
    /\ history' = Observe(driver_url, <<"print_new", "get">>)
    /\ pc' = "get"
    /\ UNCHANGED <<extracted_text, summary,
                   driver_url, driver_open, quit_calls, exit_printed,
                   interrupted_at>>

\* lines 123, 131, 136-141, 89: the read returns a new address; it is
\* announced and extract_text_from_url calls driver.get(url)
ReadNew ==
    /\ pc = "current_url"
    /\ ~IsInvalid(driver_url)
    /\ IsNew(driver_url, processed_urls)
    /\ current_url' = driver_url
    /\ history' = Observe(driver_url, <<"print_new", "get">>)
    /\ pc' = "get"
    /\ UNCHANGED <<processed_urls, extracted_text, summary,
                   driver_url, driver_open, quit_calls, exit_printed,
                   interrupted_at>>

\* ReadRaises, had the handler waited without printing
ReadRaisesSilent ==
    /\ pc = "current_url"
    /\ CanFail
    /\ history' = Observe(Unavailable, <<"sleep">>)
    /\ pc' = "sleep"
    /\ UNCHANGED <<processed_urls, current_url, extracted_text, summary,
                   driver_url, driver_open, quit_calls, exit_printed,
                   interrupted_at>>

\* lines 123-128: driver.current_url raises
ReadRaises ==
    /\ pc = "current_url"
    /\ CanFail
    /\ history' = Observe(Unavailable, <<"print_error_url", "sleep">>)
    /\ pc' = "sleep"
    /\ UNCHANGED <<processed_urls, current_url, extracted_text, summary,
                   driver_url, driver_open, quit_calls, exit_printed,
                   interrupted_at>>

\* lines 89-90: driver.get(url) returns: the session has navigated to url
\* (a later redirect of the page is a step of Navigate)
GetReturns ==
    /\ pc = "get"
    /\ driver_url' = current_url
    /\ history' = Log(<<"load">>)
    /\ pc' = "load"
    /\ UNCHANGED <<processed_urls, current_url, extracted_text, summary,
                   driver_open, quit_calls, exit_printed,
                   interrupted_at>>

\* GetRaises, had the handler also marked the address as processed
GetRaisesMarks ==
    /\ pc = "get"
    /\ CanFail
    /\ \E a \in {driver_url, current_url} : driver_url' = a
    /\ processed_urls' = processed_urls \cup {current_url}
    /\ history' = Log(<<"print_error_extract", "sleep">>)
    /\ pc' = "sleep"
    /\ UNCHANGED <<current_url, extracted_text, summary,
                   driver_open, quit_calls, exit_printed,
                   interrupted_at>>

\* GetRaises, had the exception not been caught in main()
GetRaisesEscapes ==
    /\ pc = "get"
    /\ CanFail
    /\ pc' = "finally"
    /\ UNCHANGED <<processed_urls, current_url, extracted_text, summary,
                   driver_url, driver_open, quit_calls, exit_printed,
                   interrupted_at, history>>

\* lines 89, 142-145: driver.get(url) raises
GetRaises ==
    /\ pc = "get"
    /\ CanFail
    /\ \E a \in {driver_url, current_url} : driver_url' = a
    /\ history' = Log(<<"print_error_extract", "sleep">>)
    /\ pc' = "sleep"
    /\ UNCHANGED <<processed_urls, current_url, extracted_text, summary,
                   driver_open, quit_calls, exit_printed,
                   interrupted_at>>

\* lines 90-91: time.sleep(2) ends, driver.find_element is called
LoadDone ==
    /\ pc = "load"
    /\ history' = Log(<<"find_element">>)
    /\ pc' = "find"
    /\ UNCHANGED <<processed_urls, current_url, extracted_text, summary,
                   driver_url, driver_open, quit_calls, exit_printed,
                   interrupted_at>>

\* FindReturns, had extraction moved the session on after reading the body
FindReturnsBack ==
    /\ pc = "find"
    /\ extracted_text' = PageText(tick)
    /\ \E a \in Addresses : a # driver_url /\ driver_url' = a
    /\ history' = Log(<<"summarize">>)
    /\ pc' = "summarize"
    /\ UNCHANGED <<processed_urls, current_url, summary,
                   driver_open, quit_calls, exit_printed,
                   interrupted_at>>

\* FindReturns, had the address been marked before summarize_text is called
FindReturnsMarks ==
    /\ pc = "find"
    /\ extracted_text' = PageText(tick)
    /\ processed_urls' = processed_urls \cup {current_url}
    /\ history' = Log(<<"summarize">>)
    /\ pc' = "summarize"
    /\ UNCHANGED <<current_url, summary, driver_url,
                   driver_open, quit_calls, exit_printed,
                   interrupted_at>>

\* lines 91-92, 141, 149, 98: body.text is returned and handed to
\* summarize_text
FindReturns ==
    /\ pc = "find"
    /\ extracted_text' = PageText(tick)
    /\ history' = Log(<<"summarize">>)
    /\ pc' = "summarize"
    /\ UNCHANGED <<processed_urls, current_url, summary, driver_url,
                   driver_open, quit_calls, exit_printed,
                   interrupted_at>>

\* FindRaises, had the handler not ended the iteration
FindRaisesGoesOn ==
    /\ pc = "find"
    /\ CanFail
    /\ history' = Log(<<"print_error_extract", "summarize">>)
    /\ pc' = "summarize"
    /\ UNCHANGED <<processed_urls, current_url, extracted_text, summary,
                   driver_url, driver_open, quit_calls, exit_printed,
                   interrupted_at>>

\* lines 91-92, 142-145: find_element or body.text raises
FindRaises ==
    /\ pc = "find"
    /\ CanFail
    /\ history' = Log(<<"print_error_extract", "sleep">>)
    /\ pc' = "sleep"
    /\ UNCHANGED <<processed_urls, current_url, extracted_text, summary,
                   driver_url, driver_open, quit_calls, exit_printed,
                   interrupted_at>>

\* lines 98-104, 149-150: the completion returns and the summary is printed
SummarizeReturns ==
    /\ pc = "summarize"
    /\ summary' = SummaryOf(extracted_text)
    /\ history' = Log(<<"print_summary">>)
    /\ pc' = "print_summary"
    /\ UNCHANGED <<processed_urls, current_url, extracted_text,
                   driver_url, driver_open, quit_calls, exit_printed,
                   interrupted_at>>

\* SummarizeRaises, had a second failure of the run been taken as fatal
SummarizeRaisesGivesUp ==
    /\ pc = "summarize"
    /\ CanFail
    /\ history' = Log(<<"print_error_summarize">> \o
                        (IF FaultsIn(history) >= 1 THEN <<>> ELSE <<"sleep">>))
    /\ pc' = IF FaultsIn(history) >= 1 THEN "finally" ELSE "sleep"
    /\ UNCHANGED <<processed_urls, current_url, extracted_text, summary,
                   driver_url, driver_open, quit_calls, exit_printed,
                   interrupted_at>>

\* SummarizeRaises, had the handler also marked the address as processed
SummarizeRaisesMarks ==
    /\ pc = "summarize"
    /\ CanFail
    /\ processed_urls' = processed_urls \cup {current_url}
    /\ history' = Log(<<"print_error_summarize", "sleep">>)
    /\ pc' = "sleep"
    /\ UNCHANGED <<current_url, extracted_text, summary,
                   driver_url, driver_open, quit_calls, exit_printed,
                   interrupted_at>>

\* lines 98-104, 151-154: the completion call raises
SummarizeRaises ==
    /\ pc = "summarize"
    /\ CanFail
    /\ history' = Log(<<"print_error_summarize", "sleep">>)
    /\ pc' = "sleep"
    /\ UNCHANGED <<processed_urls, current_url, extracted_text, summary,
                   driver_url, driver_open, quit_calls, exit_printed,
                   interrupted_at>>

\* Record, had the add been left out
RecordForgets ==
    /\ pc = "print_summary"
    /\ history' = Log(<<"sleep">>)
    /\ pc' = "sleep"
    /\ UNCHANGED <<processed_urls, current_url, extracted_text, summary,
                   driver_url, driver_open, quit_calls, exit_printed,
                   interrupted_at>>

\* Record, had it added the session's address at that moment instead of current_url
RecordDriverUrl ==
    /\ pc = "print_summary"
    /\ processed_urls' = processed_urls \cup {driver_url}
    /\ history' = Log(<<"add", "sleep">>)
    /\ pc' = "sleep"
    /\ UNCHANGED <<current_url, extracted_text, summary,
                   driver_url, driver_open, quit_calls, exit_printed,
                   interrupted_at>>

\* lines 157, 160
Record ==
    /\ pc = "print_summary"
    /\ processed_urls' = processed_urls \cup {current_url}
    /\ history' = Log(<<"add", "sleep">>)
    /\ pc' = "sleep"
    /\ UNCHANGED <<current_url, extracted_text, summary,
                   driver_url, driver_open, quit_calls, exit_printed,
                   interrupted_at>>

\* Wake, had processed_urls been created inside the loop
WakeClears ==
    /\ pc = "sleep"
    /\ tick < MaxTicks
    /\ processed_urls' = {}
    /\ history' = Append(history, NewTick)
    /\ pc' = "current_url"
    /\ UNCHANGED <<current_url, extracted_text, summary,
                   driver_url, driver_open, quit_calls, exit_printed,
                   interrupted_at>>

\* lines 127/132/144/153/160 then 121-123: the wait ends, the loop reads again
Wake ==
    /\ pc = "sleep"
    /\ tick < MaxTicks
    /\ history' = Append(history, NewTick)
    /\ pc' = "current_url"
    /\ UNCHANGED <<processed_urls, current_url, extracted_text, summary,
                   driver_url, driver_open, quit_calls, exit_printed,
                   interrupted_at>>

\* KeyboardInterrupt is raised in the call in flight; no handler of main()
\* catches it (they catch Exception), so it leaves main(): lines 166-168
Interrupt ==
    /\ pc \in LoopPcs
    /\ pc' = "except"
    /\ interrupted_at' = pc
    /\ UNCHANGED <<processed_urls, current_url, extracted_text, summary,
                   driver_url, driver_open, quit_calls, exit_printed,
                   history>>

\* PrintExiting, had the handler called driver.quit() as well as the finally clause
PrintExitingQuits ==
    /\ pc = "except"
    /\ exit_printed' = TRUE
    /\ quit_calls' = quit_calls + 1
    /\ pc' = "finally"
    /\ UNCHANGED <<processed_urls, current_url, extracted_text, summary,
                   driver_url, driver_open, interrupted_at, history>>

\* lines 168-169
PrintExiting ==
    /\ pc = "except"
    /\ exit_printed' = TRUE
    /\ pc' = "finally"
    /\ UNCHANGED <<processed_urls, current_url, extracted_text, summary,
                   driver_url, driver_open, quit_calls, history,
                   interrupted_at>>

\* a further KeyboardInterrupt during print("Exiting...") leaves the handler;
\* the finally clause still runs: lines 169-171
InterruptAgain ==
    /\ pc = "except"
    /\ pc' = "finally"
    /\ UNCHANGED <<processed_urls, current_url, extracted_text, summary,
                   driver_url, driver_open, quit_calls, exit_printed,
                   interrupted_at, history>>

\* lines 170-171
Quit ==
    /\ pc = "finally"
    /\ driver_open' = FALSE
    /\ quit_calls' = quit_calls + 1
    /\ pc' = "exited"
    /\ UNCHANGED <<processed_urls, current_url, extracted_text, summary,
                   driver_url, exit_printed, history,
                   interrupted_at>>

Next ==
    \/ Navigate
    \/ ReadInvalid
    \/ ReadProcessed
    \/ ReadNew
    \/ ReadRaises
    \/ GetReturns
    \/ GetRaises
    \/ LoadDone
    \/ FindReturns
    \/ FindRaises
    \/ SummarizeReturns
    \/ SummarizeRaises
    \/ Record
    \/ Wake
    \/ Interrupt
    \/ PrintExiting
    \/ InterruptAgain
    \/ Quit

Spec == Init /\ [][Next]_vars

\* ------------------------------------------- the loop left to run, fairly
\* The user may still move while enough ticks remain for every failure the
\* run can have and one success; after that the browser stays where it is.
UserStillMoving == tick + MaxFaults + 1 <= MaxTicks

LiveNavigate == UserStillMoving /\ Navigate

\* a step of the thread: the call in flight returns or raises, or the wait ends
LoopStep ==
    \/ ReadInvalid
    \/ ReadProcessed
    \/ ReadNew
    \/ ReadRaises
    \/ GetReturns
    \/ GetRaises
    \/ LoadDone
    \/ FindReturns
    \/ FindRaises
    \/ SummarizeReturns
    \/ SummarizeRaises
    \/ Record
    \/ Wake

LiveNext ==
    \/ LiveNavigate
    \/ LoopStep

\* no interrupt; every blocking call and every wait of the single thread ends
LiveSpec == Init /\ [][LiveNext]_vars /\ WF_vars(LoopStep)

TypeOK ==
    /\ pc \in LoopPcs \cup {"except", "finally", "exited"}
    /\ processed_urls \subseteq Addresses
    /\ driver_url \in Addresses
    /\ quit_calls \in 0..1
\* ------------------------------------------------- reading the tick records
Cur == history[Len(history)]

Has(evs, e) == \E k \in 1..Len(evs) : evs[k] = e

LastOf(evs) == evs[Len(evs)]

Ticks == 1..Len(history)

interrupted == interrupted_at # "none"

\* tick i has run to its wait
TickOver(i) == i < Len(history) \/ pc = "sleep"

Invoked(i) == Has(history[i].events, "get") \/ Has(history[i].events, "summarize")

ExtractionFailed(i) == Has(history[i].events, "print_error_extract")

SummarizationFailed(i) == Has(history[i].events, "print_error_summarize")

Succeeded(i) == Has(history[i].events, "add")

\* the read of this step returned an address (it did not raise, and no
\* interrupt cut it short)
ReadReturned ==
    /\ pc = "current_url"
    /\ pc' \in LoopPcs \ {"current_url"}
    /\ history'[Len(history)].url = driver_url

\* ---------------------------------------------------------------- claims

\* C1 (idempotence): once an address is in processed_urls, a tick whose read
\* returns that address goes straight to the wait, invoking neither
\* driver.get nor summarize_text; and no extraction or summarization is ever
\* in flight for an address that is already in processed_urls.
C1_Idempotence ==
    /\ [][(ReadReturned /\ driver_url \in processed_urls)
            => /\ pc' = "sleep"
               /\ history' = Observe(driver_url, <<"sleep">>)
               /\ processed_urls' = processed_urls]_vars
    /\ [](\A i, j \in Ticks :
            (i < j /\ Succeeded(i) /\ history[j].url = history[i].url)
                => ~Invoked(j))

C1_Witness ==
    \E i, j \in Ticks :
        /\ i < j
        /\ Succeeded(i)
        /\ history[j].url = history[i].url
        /\ history[j].url \in processed_urls
        /\ TickOver(j)

\* C2 (failure non-poisoning): a step in which extraction or summarization
\* fails leaves processed_urls unchanged; the failed tick adds nothing; the
\* next tick that observes the same address invokes extraction again; and
\* the text handed to summarize_text is always the one extracted in the
\* running tick, never one kept from a failed tick.
C2_NonPoisoning ==
    /\ [][(CountIn(history'[Len(history)].events,
                   {"print_error_extract", "print_error_summarize"})
             > CountIn(Cur.events, {"print_error_extract", "print_error_summarize"}))
            => processed_urls' = processed_urls]_vars
    /\ [](\A i \in Ticks :
            (ExtractionFailed(i) \/ SummarizationFailed(i))
                => /\ ~Succeeded(i)
                   /\ (TickOver(i) => history[i].url \notin processed_urls
                                      \/ \E j \in Ticks : j > i /\ history[j].url = history[i].url
                                                          /\ Succeeded(j))
                   /\ \A j \in Ticks :
                        (/\ j > i
                         /\ history[j].url = history[i].url
                         /\ \A k \in Ticks : (i < k /\ k < j) => history[k].url # history[i].url)
                            => Has(history[j].events, "get"))
    /\ [](pc = "summarize" => extracted_text = PageText(tick))

C2_Witness ==
    \E i, j \in Ticks :
        /\ j = i + 1
        /\ SummarizationFailed(i)
        /\ history[j].url = history[i].url
        /\ pc = "summarize"
        /\ j = tick

\* C3 (invalid-address filtering): a tick whose read returned the empty
\* string or an address starting with about: invokes neither driver.get nor
\* summarize_text, whatever processed_urls holds.
C3_InvalidFiltered ==
    \A i \in Ticks :
        (history[i].url = "" \/ StartsWith(history[i].url, "about:"))
            => /\ ~Invoked(i)
               /\ history[i].events = <<"current_url", "sleep">>

C3_Witness ==
    /\ \E i \in Ticks : history[i].url = ""
    /\ \E i \in Ticks : history[i].url = "about:blank"
    /\ processed_urls # {}
    /\ pc = "sleep"
\* C4 (interrupt releases the session once): an interrupt is taken only from
\* a call of the loop and moves the thread to the except clause; from there
\* the only moves are to the finally clause and then to exit, where
\* driver.quit() is called; once interrupted no event (read, extraction,
\* summarization, print of the loop) is added and processed_urls is frozen;
\* once the session is released nothing moves; quit is called exactly once
\* on exit and never before.
C4_InterruptReleasesOnce ==
    /\ [][/\ (interrupted' /\ ~interrupted)
                => (pc \in LoopPcs /\ pc' = "except" /\ driver_open')
          /\ (pc = "except" /\ pc' # pc) => pc' = "finally"
          /\ (pc = "finally" /\ pc' # pc)
                => (pc' = "exited" /\ quit_calls' = quit_calls + 1 /\ ~driver_open')
          /\ interrupted
                => (history' = history /\ processed_urls' = processed_urls
                    /\ interrupted_at' = interrupted_at)
          /\ ~driver_open => UNCHANGED vars]_vars
    /\ [](quit_calls = IF pc = "exited" THEN 1 ELSE 0)
    /\ [](driver_open <=> pc # "exited")
    /\ [](interrupted <=> pc \in {"except", "finally", "exited"})

C4_Witness ==
    /\ pc = "exited"
    /\ interrupted_at \in {"get", "find", "summarize"}
    /\ quit_calls = 1
    /\ ~driver_open
    /\ exit_printed

\* C5 (no partial summary): when the interrupt was raised in the
\* summarize_text call, the tick has printed no summary, its address is not
\* in processed_urls, and the local summary is not the one of this tick's
\* text - in the interrupted state and in every state after it.
C5_InterruptMidSummarization ==
    interrupted_at = "summarize"
        => /\ ~Has(Cur.events, "print_summary")
           /\ ~Has(Cur.events, "add")
           /\ Cur.url = current_url
           /\ current_url \notin processed_urls
           /\ summary # SummaryOf(PageText(tick))

C5_Witness ==
    /\ interrupted_at = "summarize"
    /\ pc = "exited"
    /\ extracted_text = PageText(tick)
    /\ processed_urls # {}

Calls == {"current_url", "get", "find", "summarize"}

ErrLine(c) ==
    CASE c = "current_url" -> "print_error_url"
      [] c \in {"get", "find"} -> "print_error_extract"
      [] c = "summarize" -> "print_error_summarize"

\* the step leaves call c by its normal return
ReturnedFrom(c) ==
    CASE c = "current_url" -> history'[Len(history)].url = driver_url
      [] c = "get" -> pc' = "load"
      [] c = "find" -> pc' = "summarize"
      [] c = "summarize" -> pc' = "print_summary"

\* C6 (transient failures stay in the loop): a step that leaves the address
\* read, driver.get, find_element or summarize_text other than by its return
\* or by an interrupt prints the error line of that stage, starts the wait
\* and changes neither processed_urls nor the session handle; the wait is
\* left only for the next read of the current address; and without an
\* interrupt the thread never leaves the loop and the session stays open.
C6_FailuresStayInLoop ==
    /\ [][/\ (pc \in Calls /\ pc' # pc /\ ~interrupted' /\ ~ReturnedFrom(pc))
                => /\ pc' = "sleep"
                   /\ Len(history') = Len(history)
                   /\ history'[Len(history)].events
                        = Cur.events \o <<ErrLine(pc), "sleep">>
                   /\ processed_urls' = processed_urls
                   /\ driver_open' /\ quit_calls' = 0
          /\ (pc = "sleep" /\ pc' # pc /\ ~interrupted')
                => (pc' = "current_url" /\ history' = Append(history, NewTick))]_vars
    /\ [](~interrupted => (pc \in LoopPcs /\ driver_open /\ quit_calls = 0))

C6_Witness ==
    /\ pc = "current_url"
    /\ ~interrupted
    /\ driver_open
    /\ \E i, j \in Ticks :
        /\ j = i + 1
        /\ j < tick
        /\ Has(history[i].events, "print_error_url")
        /\ Has(history[j].events, "print_error_summarize")
\* the addresses read, tick by tick
RECURSIVE UrlsOf(_)
UrlsOf(h) == IF h = <<>> THEN <<>> ELSE <<Head(h).url>> \o UrlsOf(Tail(h))

\* the addresses of the ticks that invoked summarize_text, in order
RECURSIVE SummarizedIn(_)
SummarizedIn(h) ==
    IF h = <<>> THEN <<>>
    ELSE (IF Has(Head(h).events, "summarize") THEN <<Head(h).url>> ELSE <<>>)
            \o SummarizedIn(Tail(h))

\* the distinct non-empty, non-about: members of urls in order of first
\* occurrence
RECURSIVE FirstValid(_, _)
FirstValid(urls, seen) ==
    IF urls = <<>> THEN <<>>
    ELSE LET u == Head(urls)
             keep == u # "" /\ ~StartsWith(u, "about:") /\ u \notin seen
         IN (IF keep THEN <<u>> ELSE <<>>)
                \o FirstValid(Tail(urls), IF keep THEN seen \cup {u} ELSE seen)

\* C7 (once per distinct valid address, in first-seen order): when every
\* tick so far has run to its wait and no read, extraction or summarization
\* has failed, the addresses summarize_text was invoked for are exactly the
\* distinct valid addresses read, each once, in the order first read.
C7_OncePerAddressInOrder ==
    (pc = "sleep" /\ FaultsIn(history) = 0)
        => SummarizedIn(history) = FirstValid(UrlsOf(history), {})

C7_Witness ==
    /\ pc = "sleep"
    /\ FaultsIn(history) = 0
    /\ UrlsOf(history) = <<"about:blank", P1, P1, P2>>
    /\ SummarizedIn(history) = <<P1, P2>>

\* C8 (emit before record): processed_urls changes only by gaining the
\* address read in the running tick, in the step that follows the print of
\* the summary of the text extracted in that tick; every member of
\* processed_urls has a tick that invoked summarize_text, printed the
\* summary and then added the address, in that order.
C8_EmitBeforeRecord ==
    /\ [][processed_urls' # processed_urls
            => /\ processed_urls' = processed_urls \cup {Cur.url}
               /\ Cur.url = current_url
               /\ LastOf(Cur.events) = "print_summary"
               /\ summary = SummaryOf(PageText(tick))
               /\ history' = Log(<<"add", "sleep">>)]_vars
    /\ [](\A a \in processed_urls :
            \E i \in Ticks :
                /\ history[i].url = a
                /\ \E k \in 1..Len(history[i].events) - 2 :
                    /\ history[i].events[k] = "summarize"
                    /\ history[i].events[k + 1] = "print_summary"
                    /\ history[i].events[k + 2] = "add")

C8_Witness ==
    /\ Len(history) = 2
    /\ history[1] = [url |-> P1,
                     events |-> <<"current_url", "print_new", "get",
                                  "print_error_extract", "sleep">>]
    /\ history[2].url = P1
    /\ CountIn(history[2].events, {"summarize"}) = 1
    /\ CountIn(history[2].events, {"print_summary"}) = 1
    /\ P1 \in processed_urls

\* C9 (A, B, A): a completed tick that read a valid address none of whose
\* earlier ticks succeeded invoked extraction for it, however often it was
\* tried and whatever was read in between; a tick that read an address an
\* earlier tick succeeded on invoked neither extraction nor summarization.
C9_RetryUnlessSucceeded ==
    \A j \in Ticks :
        (TickOver(j) /\ history[j].url \in {P1, P2})
            => IF \E i \in Ticks : i < j /\ history[i].url = history[j].url /\ Succeeded(i)
               THEN ~Invoked(j)
               ELSE Has(history[j].events, "get")

C9_Witness ==
    \E a, b \in {P1, P2} :
        /\ a # b
        /\ UrlsOf(history) = <<a, b, a, b>>
        /\ pc = "sleep"
        /\ ExtractionFailed(1) /\ a \notin processed_urls
        /\ Succeeded(2)
        /\ Has(history[3].events, "get")
        /\ ~Invoked(4)

\* a step of the pipeline (not of the user)
PipelineStep == pc' # pc \/ history' # history

\* C10 as stated (passive): no step of the pipeline changes the session's
\* current address.
C10_Passive == [][PipelineStep => driver_url' = driver_url]_vars

\* C10 as amended: the pipeline changes the session's current address only
\* through the driver.get(url) that extraction issues, which puts the session
\* (back) on the valid address read in the tick; the read, find_element,
\* summarize_text, the prints, the recording and the wait leave it alone.
C10_OnlyGetNavigates ==
    /\ [][(PipelineStep /\ driver_url' # driver_url)
            => (pc = "get" /\ LastOf(Cur.events) = "get"
                /\ driver_url' = current_url)]_vars
    /\ [](pc = "get" => (Cur.url = current_url /\ current_url \in ValidAddresses))

C10_Witness ==
    /\ pc = "find"
    /\ LastOf(Cur.events) = "find_element"
    /\ driver_url = current_url
    /\ tick > 1
\* C11 (pacing): every tick makes exactly one read of the current address,
\* its first event, and at most one driver.get and one summarize_text; a
\* tick that is over has started the fixed wait exactly once, as its last
\* event, whichever path it took; and a new read is only ever started from
\* the wait.
C11_Pacing ==
    /\ [][Len(history') # Len(history)
            => (pc = "sleep" /\ LastOf(Cur.events) = "sleep"
                /\ history' = Append(history, NewTick))]_vars
    /\ [](\A i \in Ticks :
            /\ Head(history[i].events) = "current_url"
            /\ CountIn(history[i].events, {"current_url"}) = 1
            /\ CountIn(history[i].events, {"get"}) <= 1
            /\ CountIn(history[i].events, {"summarize"}) <= 1
            /\ CountIn(history[i].events, {"sleep"}) <= 1
            /\ Has(history[i].events, "sleep") => LastOf(history[i].events) = "sleep"
            /\ TickOver(i) => CountIn(history[i].events, {"sleep"}) = 1)

C11_Witness ==
    /\ tick = 4
    /\ pc = "sleep"
    /\ history[1].url = Unavailable
    /\ history[2].url = "about:blank"
    /\ SummarizationFailed(3)
    /\ Succeeded(4)

\* C12 (only an interrupt ends the loop): the thread leaves the loop only in
\* a step that delivers a KeyboardInterrupt, and that step is no failure of
\* a call; driver.quit() has been called, or the session released, only
\* after an interrupt; and however many reads, extractions and
\* summarizations have failed, the thread is still in the loop with the
\* session open as long as no interrupt came.
C12_OnlyInterruptEndsLoop ==
    /\ [][(pc \in LoopPcs /\ pc' \notin LoopPcs)
            => /\ interrupted_at = "none"
               /\ interrupted_at' = pc
               /\ pc' = "except"
               /\ FaultsIn(history') = FaultsIn(history)]_vars
    /\ []((quit_calls > 0 \/ ~driver_open \/ exit_printed) => interrupted)
    /\ []((FaultsIn(history) > 0 /\ ~interrupted)
            => (pc \in LoopPcs /\ driver_open /\ quit_calls = 0))

C12_Witness ==
    /\ FaultsIn(history) = MaxFaults
    /\ \A i \in 1..MaxFaults : CountIn(history[i].events, ErrorEvents) = 1
    /\ tick = MaxFaults + 1
    /\ pc = "get"
    /\ ~interrupted
    /\ driver_open

\* C13 (eventual processing): in a run without interrupt in which every call
\* in flight eventually returns or raises and at most MaxFaults calls raise,
\* once the browser stays on a valid address that is not in processed_urls,
\* a summary is eventually printed for that address and the address is
\* eventually in processed_urls.
C13_EventuallyProcessed ==
    \A a \in {P1, P2} :
        (~UserStillMoving /\ driver_url = a /\ a \notin processed_urls)
            ~> (/\ a \in processed_urls
                /\ \E i \in Ticks : /\ history[i].url = a
                                    /\ Has(history[i].events, "print_summary"))

C13_Witness ==
    \E a \in {P1, P2} :
        /\ ~UserStillMoving
        /\ driver_url = a
        /\ a \in processed_urls
        /\ history[2].url = a /\ ExtractionFailed(2)
        /\ history[3].url = a /\ SummarizationFailed(3)
        /\ history[4].url = a /\ Succeeded(4)

\* the number of ticks that added an address
RECURSIVE AddsIn(_)
AddsIn(h) ==
    IF h = <<>> THEN 0
    ELSE CountIn(Head(h).events, {"add"}) + AddsIn(Tail(h))

\* C14 (monotone growth): processed_urls is empty when the run starts; no
\* step removes a member and no step adds more than one; a tick adds at most
\* once, so the set never holds more addresses than ticks that added one.
C14_GrowsMonotonically ==
    /\ processed_urls = {}
    /\ [][/\ processed_urls \subseteq processed_urls'
          /\ Cardinality(processed_urls' \ processed_urls) <= 1
          /\ processed_urls' # processed_urls
                => CountIn(Cur.events, {"add"}) = 0]_vars
    /\ [](/\ \A i \in Ticks : CountIn(history[i].events, {"add"}) <= 1
          /\ Cardinality(processed_urls) <= AddsIn(history))

C14_Witness ==
    /\ processed_urls = {P1, P2}
    /\ pc = "sleep"
    /\ tick = 4
    /\ \E i \in Ticks : ExtractionFailed(i)
    /\ \E i \in Ticks : history[i].url \in processed_urls /\ ~Invoked(i)

\* the events of a tick up to and including its call of summarize_text
UpToSummarize == <<"current_url", "print_new", "get", "load", "find_element", "summarize">>

\* C15 (summarize only after this tick's extraction): a tick that invoked
\* summarize_text did so right after the driver.get, the page load and the
\* find_element of the same tick returned, with no extraction error; a tick
\* whose extraction failed never invokes summarize_text; the text in the
\* call, and the text behind a printed summary, is the one this tick's
\* extraction returned; and summarize_text is only entered by the step in
\* which find_element returns.
C15_SummarizeAfterExtraction ==
    /\ [][(pc' = "summarize" /\ pc # "summarize")
            => (pc = "find" /\ extracted_text' = PageText(tick)
                /\ current_url' = current_url
                /\ history' = Log(<<"summarize">>))]_vars
    /\ [](\A i \in Ticks :
            /\ Has(history[i].events, "summarize")
                => (/\ Len(history[i].events) >= Len(UpToSummarize)
                    /\ SubSeq(history[i].events, 1, Len(UpToSummarize)) = UpToSummarize
                    /\ ~ExtractionFailed(i))
            /\ ExtractionFailed(i) => ~Has(history[i].events, "summarize"))
    /\ [](pc \in {"summarize", "print_summary"} => extracted_text = PageText(tick))
    /\ [](pc = "print_summary" => summary = SummaryOf(PageText(tick)))

C15_Witness ==
    /\ tick = 3
    /\ ExtractionFailed(1)
    /\ SummarizationFailed(2)
    /\ history[1].url = history[3].url
    /\ history[2].url = history[3].url
    /\ pc = "print_summary"
    /\ extracted_text = PageText(3)

\* the lines a tick printed
PrintEvents == {"print_new", "print_error_url", "print_error_extract",
                "print_error_summarize", "print_summary"}

\* C16 (read failure is logged, invalid address is silent): a tick whose
\* read raised printed the address-read error line, and nothing else, before
\* the wait; a tick whose read returned the empty string or an about:
\* address printed nothing at all before the wait.
C16_LoggedVersusSilent ==
    \A i \in Ticks :
        /\ history[i].url = Unavailable
            => history[i].events = <<"current_url", "print_error_url", "sleep">>
        /\ (history[i].url = "" \/ StartsWith(history[i].url, "about:"))
            => (/\ CountIn(history[i].events, PrintEvents) = 0
                /\ LastOf(history[i].events) = "sleep")
        /\ Has(history[i].events, "print_error_url") => history[i].url = Unavailable

C16_Witness ==
    /\ pc = "sleep"
    /\ \E i \in Ticks : history[i].url = Unavailable
    /\ \E i \in Ticks : history[i].url = ""
    /\ \E i \in Ticks : history[i].url = "about:blank"

\* the number of summaries printed in ticks that read address a
RECURSIVE SummariesFor(_, _)
SummariesFor(h, a) ==
    IF h = <<>> THEN 0
    ELSE (IF Head(h).url = a THEN CountIn(Head(h).events, {"print_summary"}) ELSE 0)
            + SummariesFor(Tail(h), a)

\* C17 (one summary per processed address): every member of processed_urls
\* is non-empty, does not start with about:, and has had exactly one summary
\* printed for it; for no address, and for no tick whose read raised, has
\* more than one summary been printed.
C17_OneSummaryPerAddress ==
    /\ \A a \in processed_urls :
        /\ a # ""
        /\ ~StartsWith(a, "about:")
        /\ a \in Addresses
        /\ SummariesFor(history, a) = 1
    /\ \A a \in Addresses \cup {Unbound, Unavailable} :
        SummariesFor(history, a)
            <= (IF a = "" \/ StartsWith(a, "about:") \/ a \notin Addresses THEN 0 ELSE 1)

C17_Witness ==
    /\ processed_urls = {P1}
    /\ SummariesFor(history, P1) = 1
    /\ SummariesFor(history, P2) = 1
    /\ interrupted_at = "print_summary"
    /\ \E i \in Ticks : SummarizationFailed(i)
    /\ \E i \in Ticks : history[i].url = P1 /\ ~Invoked(i)

\* extraction or summarization of the running tick is under way
Processing == pc \in {"get", "load", "find", "summarize", "print_summary"}

====
